---- MODULE Spec2Model ----
(***************************************************************************)
(* Model of download_imdb_data_auto.py: the five index builders            *)
(* (load_ratings, load_crew, load_names, load_principals,                  *)
(* load_languages_and_countries), the merge pass process_basics and the    *)
(* sequencing done by main.                                                *)
(*                                                                         *)
(* Text.  A Python str is modelled as a sequence of tokens: a word         *)
(* ("tt1", "en", "Ada") or a separator ("," "|" ", " " mins.").  The       *)
(* empty str is << >>.  A line of a source file is the sequence of its     *)
(* tab-separated fields, each a text.  Words never contain a separator.    *)
(*                                                                         *)
(* Streams.  A gzip text stream is read line by line; every read either    *)
(* yields a line, ends the stream, or raises EOFError (truncated archive). *)
(* The lines a loop has consumed are recorded in read[file].               *)
(***************************************************************************)
EXTENDS Naturals, Sequences, FiniteSets

VARIABLES
    pc,                  \* where main (and the function it is running) stands
    read,                \* read[file]: the lines the loop over that file consumed
    truncated,           \* the files whose loop ended in a caught EOFError
    ratings,             \* dict tconst -> <<avg_rating, num_votes>>
    crew,                \* dict tconst -> <<directors, writers>>
    names,               \* dict nconst -> primary_name
    principals,          \* dict tconst -> list of names; joined texts on return
    languages,           \* dict tconst -> language
    original_languages,  \* dict tconst -> language of an original-title row
    countries,           \* dict tconst -> region
    original_countries,  \* dict tconst -> region of an original-title row
    output,              \* the lines written to the output file
    raised,              \* the file whose read raised the exception main caught
    returned,            \* the builders whose result main has received
    outfile,             \* the output file: "absent", "previous" (left by an
                         \* earlier run, untouched) or "opened" (by this run)
    consumed,            \* create_database: the lines of the output file its loop consumed
    movies,              \* create_database: the rows waiting to be inserted
    table                \* create_database: the rows of table movies

vars == <<pc, read, truncated, ratings, crew, names, principals, languages,
          original_languages, countries, original_countries, output, raised, returned, outfile,
          consumed, movies, table>>

(***************************************************************************)
(* Bounds of the model.                                                    *)
(***************************************************************************)
MaxAkasRows == 3
MaxPrincipalsRows == 5
MaxBasicsRows == 2
MaxMainRows == 1
MaxIndexRows == 2
MaxRatingsRows == 3

(***************************************************************************)
(* Text helpers.                                                           *)
(***************************************************************************)
W(s) == <<s>>
EMPTY == << >>
NULL == <<"\\N">>

\* Python dicts: finite functions.
EmptyDict == [k \in {} |-> EMPTY]
Has(d, k) == k \in DOMAIN d
Put(d, k, v) == [x \in (DOMAIN d) \cup {k} |-> IF x = k THEN v ELSE d[x]]
Del(d, k) == [x \in (DOMAIN d) \ {k} |-> d[x]]
Get(d, k, default) == IF k \in DOMAIN d THEN d[k] ELSE default

\* line.strip(): leading and trailing whitespace goes, so empty fields at
\* either end of the line (and the tabs around them) disappear.
RECURSIVE LStrip(_)
LStrip(line) ==
    IF line = << >> THEN << >>
    ELSE IF Head(line) = EMPTY THEN LStrip(Tail(line))
    ELSE line

RECURSIVE RStrip(_)
RStrip(line) ==
    IF line = << >> THEN << >>
    ELSE IF line[Len(line)] = EMPTY THEN RStrip(SubSeq(line, 1, Len(line) - 1))
    ELSE line

\* line.strip().split('\t'): ''.split('\t') is [''].
SplitLine(line) ==
    LET s == RStrip(LStrip(line))
    IN  IF s = << >> THEN <<EMPTY>> ELSE s

\* parts[i] with Python's 0-based index.
Part(parts, i) == parts[i + 1]

(***************************************************************************)
(* Numbers.  float(s) and int(s) succeed on the numeric words below and    *)
(* raise ValueError on any other text.  A float is held in tenths.         *)
(***************************************************************************)
IsInt(text) ==
    text \in {W("1000"), W("50"), W("1999"), W("2001"), W("90"), W("100"), W("0"), W("1")}
IntOf(text) ==
    CASE text = W("1000") -> 1000
      [] text = W("1999") -> 1999
      [] text = W("2001") -> 2001
      [] text = W("90") -> 90
      [] text = W("100") -> 100
      [] text = W("0") -> 0
      [] text = W("1") -> 1
      [] OTHER -> 50
IsFloat(text) == IsInt(text) \/ text \in {W("8.5"), W("7.0"), W("7"), W("1000.0"), W("50.0")}
FloatOf(text) ==
    CASE text = W("8.5") -> 85
      [] text \in {W("7.0"), W("7")} -> 70
      [] text = W("1000.0") -> 10000
      [] text = W("50.0") -> 500
      [] OTHER -> 10 * IntOf(text)
\* f"{avg_rating:.1f}"
Format1f(tenths) ==
    CASE tenths = 85 -> W("8.5")
      [] tenths = 70 -> W("7.0")
      [] tenths = 10000 -> W("1000.0")
      [] OTHER -> W("50.0")
\* f"{num_votes}"
FormatInt(n) == IF n = 1000 THEN W("1000") ELSE W("50")

\* "for line in f" hands the loop body one more line.
Consume(file, line) == read' = [read EXCEPT ![file] = Append(@, line)]

(***************************************************************************)
(* load_ratings.                                                           *)
(***************************************************************************)
\* Faulty variant: an id already in the index keeps its first entry.
RatingsStepFirstWins(r, parts) ==
    IF Len(parts) >= 3 /\ IsFloat(Part(parts, 1)) /\ IsInt(Part(parts, 2))
       /\ ~Has(r, Part(parts, 0))
    THEN Put(r, Part(parts, 0), <<FloatOf(Part(parts, 1)), IntOf(Part(parts, 2))>>)
    ELSE r

\* ratings after the loop body for one line.
RatingsStep(r, parts) ==
    IF Len(parts) >= 3 /\ IsFloat(Part(parts, 1)) /\ IsInt(Part(parts, 2))
    THEN Put(r, Part(parts, 0), <<FloatOf(Part(parts, 1)), IntOf(Part(parts, 2))>>)
    ELSE r

\* gzip.open and f.readline() of the header succeed.
RatingsHeader ==
    /\ pc = "ratings:header"
    /\ pc' = "ratings:loop"
    /\ ratings' = EmptyDict
    /\ UNCHANGED <<read, truncated, crew, names, principals, languages,
                   original_languages, countries, original_countries, output, raised, returned, outfile>>
    /\ UNCHANGED <<consumed, movies, table>>

\* f.readline() of the header raises EOFError, outside the try.
RatingsHeaderEOFError ==
    /\ pc = "ratings:header"
    /\ pc' = "main:except"
    /\ raised' = "ratings"
    /\ UNCHANGED <<read, truncated, ratings, crew, names, principals, languages,
                   original_languages, countries, original_countries, output, returned, outfile>>
    /\ UNCHANGED <<consumed, movies, table>>

\* One iteration of "for line in f".
RatingsRow(line) ==
    /\ pc = "ratings:loop"
    /\ Consume("ratings", line)
    /\ ratings' = RatingsStep(ratings, SplitLine(line))
    /\ UNCHANGED <<pc, truncated, crew, names, principals, languages,
                   original_languages, countries, original_countries, output, raised, returned, outfile>>
    /\ UNCHANGED <<consumed, movies, table>>

\* The stream ends: the loop is left, the dict returned, main goes on to load_crew.
RatingsEnd ==
    /\ pc = "ratings:loop"
    /\ pc' = "crew:header"
    /\ returned' = returned \cup {"ratings"}
    /\ UNCHANGED <<read, truncated, ratings, crew, names, principals, languages,
                   original_languages, countries, original_countries, output, raised, outfile>>
    /\ UNCHANGED <<consumed, movies, table>>

\* Faulty variant: the handler throws the partial index away.
RatingsEOFErrorDiscards ==
    /\ pc = "ratings:loop"
    /\ pc' = "crew:header"
    /\ truncated' = truncated \cup {"ratings"}
    /\ ratings' = EmptyDict
    /\ returned' = returned \cup {"ratings"}
    /\ UNCHANGED <<read, crew, names, principals, languages,
                   original_languages, countries, original_countries, output, raised, outfile>>
    /\ UNCHANGED <<consumed, movies, table>>

\* The stream raises EOFError inside the loop: caught, warning printed, the
\* dict built so far returned.
RatingsEOFError ==
    /\ pc = "ratings:loop"
    /\ pc' = "crew:header"
    /\ truncated' = truncated \cup {"ratings"}
    /\ returned' = returned \cup {"ratings"}
    /\ UNCHANGED <<read, ratings, crew, names, principals, languages,
                   original_languages, countries, original_countries, output, raised, outfile>>
    /\ UNCHANGED <<consumed, movies, table>>

(***************************************************************************)
(* load_crew.                                                              *)
(***************************************************************************)
\* crew after the loop body for one line.
CrewStep(c, parts) ==
    IF Len(parts) >= 3
    THEN LET directors == IF Part(parts, 1) # NULL THEN Part(parts, 1) ELSE EMPTY
             writers == IF Part(parts, 2) # NULL THEN Part(parts, 2) ELSE EMPTY
         IN  Put(c, Part(parts, 0), <<directors, writers>>)
    ELSE c

CrewHeader ==
    /\ pc = "crew:header"
    /\ pc' = "crew:loop"
    /\ crew' = EmptyDict
    /\ UNCHANGED <<read, truncated, ratings, names, principals, languages,
                   original_languages, countries, original_countries, output, raised, returned, outfile>>
    /\ UNCHANGED <<consumed, movies, table>>

CrewHeaderEOFError ==
    /\ pc = "crew:header"
    /\ pc' = "main:except"
    /\ raised' = "crew"
    /\ UNCHANGED <<read, truncated, ratings, crew, names, principals, languages,
                   original_languages, countries, original_countries, output, returned, outfile>>
    /\ UNCHANGED <<consumed, movies, table>>

CrewRow(line) ==
    /\ pc = "crew:loop"
    /\ Consume("crew", line)
    /\ crew' = CrewStep(crew, SplitLine(line))
    /\ UNCHANGED <<pc, truncated, ratings, names, principals, languages,
                   original_languages, countries, original_countries, output, raised, returned, outfile>>
    /\ UNCHANGED <<consumed, movies, table>>

\* Faulty variant: main goes on to load_principals, skipping load_names.
CrewEndSkipsNames ==
    /\ pc = "crew:loop"
    /\ pc' = "principals:header"
    /\ returned' = returned \cup {"crew"}
    /\ UNCHANGED <<read, truncated, ratings, crew, names, principals, languages,
                   original_languages, countries, original_countries, output, raised, outfile>>
    /\ UNCHANGED <<consumed, movies, table>>

\* The stream ends: the dict is returned, main goes on to load_names.
CrewEnd ==
    /\ pc = "crew:loop"
    /\ pc' = "names:header"
    /\ returned' = returned \cup {"crew"}
    /\ UNCHANGED <<read, truncated, ratings, crew, names, principals, languages,
                   original_languages, countries, original_countries, output, raised, outfile>>
    /\ UNCHANGED <<consumed, movies, table>>

CrewEOFError ==
    /\ pc = "crew:loop"
    /\ pc' = "names:header"
    /\ truncated' = truncated \cup {"crew"}
    /\ returned' = returned \cup {"crew"}
    /\ UNCHANGED <<read, ratings, crew, names, principals, languages,
                   original_languages, countries, original_countries, output, raised, outfile>>
    /\ UNCHANGED <<consumed, movies, table>>

(***************************************************************************)
(* load_names.                                                             *)
(***************************************************************************)
\* names after the loop body for one line.
NamesStep(nm, parts) ==
    IF Len(parts) >= 2 THEN Put(nm, Part(parts, 0), Part(parts, 1)) ELSE nm

NamesHeader ==
    /\ pc = "names:header"
    /\ pc' = "names:loop"
    /\ names' = EmptyDict
    /\ UNCHANGED <<read, truncated, ratings, crew, principals, languages,
                   original_languages, countries, original_countries, output, raised, returned, outfile>>
    /\ UNCHANGED <<consumed, movies, table>>

NamesHeaderEOFError ==
    /\ pc = "names:header"
    /\ pc' = "main:except"
    /\ raised' = "names"
    /\ UNCHANGED <<read, truncated, ratings, crew, names, principals, languages,
                   original_languages, countries, original_countries, output, returned, outfile>>
    /\ UNCHANGED <<consumed, movies, table>>

NamesRow(line) ==
    /\ pc = "names:loop"
    /\ Consume("names", line)
    /\ names' = NamesStep(names, SplitLine(line))
    /\ UNCHANGED <<pc, truncated, ratings, crew, principals, languages,
                   original_languages, countries, original_countries, output, raised, returned, outfile>>
    /\ UNCHANGED <<consumed, movies, table>>

NamesEnd ==
    /\ pc = "names:loop"
    /\ pc' = "principals:header"
    /\ returned' = returned \cup {"names"}
    /\ UNCHANGED <<read, truncated, ratings, crew, names, principals, languages,
                   original_languages, countries, original_countries, output, raised, outfile>>
    /\ UNCHANGED <<consumed, movies, table>>

NamesEOFError ==
    /\ pc = "names:loop"
    /\ pc' = "principals:header"
    /\ truncated' = truncated \cup {"names"}
    /\ returned' = returned \cup {"names"}
    /\ UNCHANGED <<read, ratings, crew, names, principals, languages,
                   original_languages, countries, original_countries, output, raised, outfile>>
    /\ UNCHANGED <<consumed, movies, table>>

(***************************************************************************)
(* load_languages_and_countries: one iteration of the loop body.           *)
(***************************************************************************)
Region(parts) == IF Part(parts, 3) # NULL THEN Part(parts, 3) ELSE EMPTY
Language(parts) == IF Part(parts, 4) # NULL THEN Part(parts, 4) ELSE EMPTY
IsOriginal(parts) == Part(parts, 7) = W("1")

\* Faulty variant: a canonical value does not replace a value already held.
LanguagesStepNoOverride(l, ol, tconst, language, is_original) ==
    IF language = EMPTY THEN l
    ELSE IF language = W("en") THEN (IF Has(l, tconst) THEN l ELSE Put(l, tconst, W("en")))
    ELSE IF is_original /\ ~Has(l, tconst) THEN l
    ELSE IF ~Has(l, tconst) /\ ~Has(ol, tconst) THEN Put(l, tconst, language)
    ELSE l

\* Faulty variant: the fallback is overwritten by every later plain row.
LanguagesStepLastFallback(l, ol, tconst, language, is_original) ==
    IF language = EMPTY THEN l
    ELSE IF language = W("en") THEN Put(l, tconst, W("en"))
    ELSE IF is_original /\ ~Has(l, tconst) THEN l
    ELSE IF ~Has(ol, tconst) /\ Get(l, tconst, EMPTY) # W("en") THEN Put(l, tconst, language)
    ELSE l

\* languages after the "if language:" block.
LanguagesStep(l, ol, tconst, language, is_original) ==
    IF language = EMPTY THEN l
    ELSE IF language = W("en") THEN Put(l, tconst, W("en"))
    ELSE IF is_original /\ ~Has(l, tconst) THEN l
    ELSE IF ~Has(l, tconst) /\ ~Has(ol, tconst) THEN Put(l, tconst, language)
    ELSE l

\* Faulty variant: an original row is recorded even for a title that already
\* holds a language.
OriginalLanguagesStepUnguarded(l, ol, tconst, language, is_original) ==
    IF language = EMPTY THEN ol
    ELSE IF language = W("en") THEN (IF Has(ol, tconst) THEN Del(ol, tconst) ELSE ol)
    ELSE IF is_original THEN Put(ol, tconst, language)
    ELSE ol

\* Faulty variant: the tentative value survives a canonical hit.
OriginalLanguagesStepNoErase(l, ol, tconst, language, is_original) ==
    IF language = EMPTY THEN ol
    ELSE IF language = W("en") THEN ol
    ELSE IF is_original /\ ~Has(l, tconst) THEN Put(ol, tconst, language)
    ELSE ol

\* original_languages after the "if language:" block.
OriginalLanguagesStep(l, ol, tconst, language, is_original) ==
    IF language = EMPTY THEN ol
    ELSE IF language = W("en") THEN (IF Has(ol, tconst) THEN Del(ol, tconst) ELSE ol)
    ELSE IF is_original /\ ~Has(l, tconst) THEN Put(ol, tconst, language)
    ELSE ol

\* countries after the "if region:" block.
CountriesStep(c, oc, tconst, region, is_original) ==
    IF region = EMPTY THEN c
    ELSE IF region = W("US") THEN Put(c, tconst, W("US"))
    ELSE IF is_original /\ ~Has(c, tconst) THEN c
    ELSE IF ~Has(c, tconst) /\ ~Has(oc, tconst) THEN Put(c, tconst, region)
    ELSE c

\* original_countries after the "if region:" block.
OriginalCountriesStep(c, oc, tconst, region, is_original) ==
    IF region = EMPTY THEN oc
    ELSE IF region = W("US") THEN (IF Has(oc, tconst) THEN Del(oc, tconst) ELSE oc)
    ELSE IF is_original /\ ~Has(c, tconst) THEN Put(oc, tconst, region)
    ELSE oc

\* The end-of-pass loops: an original value is installed where no value is held.
MergeOriginals(final, original) ==
    [t \in (DOMAIN final) \cup (DOMAIN original) |->
        IF t \in DOMAIN final THEN final[t] ELSE original[t]]

(***************************************************************************)
(* Actions of load_languages_and_countries.                                *)
(***************************************************************************)
\* gzip.open and f.readline() of the header succeed; the dicts are created.
AkasHeader ==
    /\ pc = "akas:header"
    /\ pc' = "akas:loop"
    /\ languages' = EmptyDict
    /\ original_languages' = EmptyDict
    /\ countries' = EmptyDict
    /\ original_countries' = EmptyDict
    /\ UNCHANGED <<read, truncated, ratings, crew, names, principals, output, raised, returned, outfile>>
    /\ UNCHANGED <<consumed, movies, table>>

\* f.readline() of the header raises EOFError: it is outside the try, so the
\* exception leaves the function and reaches main's "except Exception".
AkasHeaderEOFError ==
    /\ pc = "akas:header"
    /\ pc' = "main:except"
    /\ raised' = "akas"
    /\ UNCHANGED <<read, truncated, ratings, crew, names, principals, languages,
                   original_languages, countries, original_countries, output, returned, outfile>>
    /\ UNCHANGED <<consumed, movies, table>>

\* Faulty variant: the country block is indented under "if language:".
AkasStepCountryUnderLanguage(st, parts) ==
    IF Len(parts) >= 8 THEN
       LET tconst == Part(parts, 0)
           region == IF Language(parts) # EMPTY THEN Region(parts) ELSE EMPTY
           language == Language(parts)
           is_original == IsOriginal(parts)
       IN  <<LanguagesStep(st[1], st[2], tconst, language, is_original),
             OriginalLanguagesStep(st[1], st[2], tconst, language, is_original),
             CountriesStep(st[3], st[4], tconst, region, is_original),
             OriginalCountriesStep(st[3], st[4], tconst, region, is_original)>>
    ELSE st

\* The loop body: the four dicts <<languages, original_languages, countries,
\* original_countries>> after a line with the given fields.
AkasStep(st, parts) ==
    IF Len(parts) >= 8 THEN
       LET tconst == Part(parts, 0)
           region == Region(parts)
           language == Language(parts)
           is_original == IsOriginal(parts)
       IN  <<LanguagesStep(st[1], st[2], tconst, language, is_original),
             OriginalLanguagesStep(st[1], st[2], tconst, language, is_original),
             CountriesStep(st[3], st[4], tconst, region, is_original),
             OriginalCountriesStep(st[3], st[4], tconst, region, is_original)>>
    ELSE st

\* The dicts after the loop has read the first n of the given lines.
RECURSIVE AkasLoop(_, _)
AkasLoop(lines, n) ==
    IF n = 0 THEN <<EmptyDict, EmptyDict, EmptyDict, EmptyDict>>
    ELSE AkasStep(AkasLoop(lines, n - 1), SplitLine(lines[n]))

\* The pair (languages, countries) the function returns for a stream that
\* delivers the given lines and then ends or is cut.
LoadLanguagesAndCountries(lines) ==
    LET st == AkasLoop(lines, Len(lines))
    IN  <<MergeOriginals(st[1], st[2]), MergeOriginals(st[3], st[4])>>

\* One iteration of "for line in f".
AkasRow(line) ==
    /\ pc = "akas:loop"
    /\ Consume("akas", line)
    /\ LET st == AkasStep(<<languages, original_languages, countries, original_countries>>,
                          SplitLine(line))
       IN  /\ languages' = st[1]
           /\ original_languages' = st[2]
           /\ countries' = st[3]
           /\ original_countries' = st[4]
    /\ UNCHANGED <<pc, truncated, ratings, crew, names, principals, output, raised, returned, outfile>>
    /\ UNCHANGED <<consumed, movies, table>>

\* The stream ends: the loop is left normally.
AkasEnd ==
    /\ pc = "akas:loop"
    /\ pc' = "akas:merge"
    /\ UNCHANGED <<read, truncated, ratings, crew, names, principals, languages,
                   original_languages, countries, original_countries, output, raised, returned, outfile>>
    /\ UNCHANGED <<consumed, movies, table>>

\* The stream raises EOFError inside the loop: caught, warning printed.
AkasEOFError ==
    /\ pc = "akas:loop"
    /\ pc' = "akas:merge"
    /\ truncated' = truncated \cup {"akas"}
    /\ UNCHANGED <<read, ratings, crew, names, principals, languages,
                   original_languages, countries, original_countries, output, raised, returned, outfile>>
    /\ UNCHANGED <<consumed, movies, table>>

\* The two merge loops and the return to main, which goes on to process_basics.
AkasMerge ==
    /\ pc = "akas:merge"
    /\ pc' = "basics:header"
    /\ languages' = MergeOriginals(languages, original_languages)
    /\ countries' = MergeOriginals(countries, original_countries)
    /\ returned' = returned \cup {"akas"}
    /\ UNCHANGED <<read, truncated, ratings, crew, names, principals,
                   original_languages, original_countries, output, raised, outfile>>
    /\ UNCHANGED <<consumed, movies, table>>

(***************************************************************************)
(* load_principals.                                                        *)
(***************************************************************************)
\* sep.join(list): the texts of the list with sep between neighbours.
RECURSIVE Join(_, _)
Join(list, sep) ==
    IF list = << >> THEN EMPTY
    ELSE IF Len(list) = 1 THEN list[1]
    ELSE list[1] \o sep \o Join(Tail(list), sep)

\* Faulty variant: the length test is off by one, so a fourth name gets in.
PrincipalsStepOffByOne(p, nm, tconst, nconst, category) ==
    IF category \in {W("actor"), W("actress")} THEN
        LET name == Get(nm, nconst, W("Unknown"))
            q == IF Has(p, tconst) THEN p ELSE Put(p, tconst, << >>)
        IN  IF Len(q[tconst]) <= 3 THEN Put(q, tconst, Append(q[tconst], name)) ELSE q
    ELSE p

\* principals after the loop body for one line with 4 fields or more.
PrincipalsStep(p, nm, tconst, nconst, category) ==
    IF category \in {W("actor"), W("actress")} THEN
        LET name == Get(nm, nconst, W("Unknown"))
            q == IF Has(p, tconst) THEN p ELSE Put(p, tconst, << >>)
        IN  IF Len(q[tconst]) < 3 THEN Put(q, tconst, Append(q[tconst], name)) ELSE q
    ELSE p

\* gzip.open and f.readline() of the header succeed; the dict is created.
PrincipalsHeader ==
    /\ pc = "principals:header"
    /\ pc' = "principals:loop"
    /\ principals' = EmptyDict
    /\ UNCHANGED <<read, truncated, ratings, crew, names, languages,
                   original_languages, countries, original_countries, output, raised, returned, outfile>>
    /\ UNCHANGED <<consumed, movies, table>>

\* f.readline() of the header raises EOFError, outside the try.
PrincipalsHeaderEOFError ==
    /\ pc = "principals:header"
    /\ pc' = "main:except"
    /\ raised' = "principals"
    /\ UNCHANGED <<read, truncated, ratings, crew, names, principals, languages,
                   original_languages, countries, original_countries, output, returned, outfile>>
    /\ UNCHANGED <<consumed, movies, table>>

\* Faulty variant: the lookup is names.setdefault(nconst, 'Unknown'), which
\* adds the missing person to the NameIndex.
PrincipalsRowSetDefault(line) ==
    /\ pc = "principals:loop"
    /\ Consume("principals", line)
    /\ LET parts == SplitLine(line) IN
       IF Len(parts) >= 4
       THEN /\ principals' = PrincipalsStep(principals, names, Part(parts, 0),
                                            Part(parts, 2), Part(parts, 3))
            /\ names' = IF Part(parts, 3) \in {W("actor"), W("actress")}
                            /\ ~Has(names, Part(parts, 2))
                         THEN Put(names, Part(parts, 2), W("Unknown")) ELSE names
       ELSE UNCHANGED <<principals, names>>
    /\ UNCHANGED <<pc, truncated, ratings, crew, languages,
                   original_languages, countries, original_countries, output, raised, returned, outfile>>
    /\ UNCHANGED <<consumed, movies, table>>

\* One iteration of "for line in f".
PrincipalsRow(line) ==
    /\ pc = "principals:loop"
    /\ Consume("principals", line)
    /\ LET parts == SplitLine(line) IN
       IF Len(parts) >= 4
       THEN principals' = PrincipalsStep(principals, names, Part(parts, 0),
                                         Part(parts, 2), Part(parts, 3))
       ELSE UNCHANGED principals
    /\ UNCHANGED <<pc, truncated, ratings, crew, names, languages,
                   original_languages, countries, original_countries, output, raised, returned, outfile>>
    /\ UNCHANGED <<consumed, movies, table>>

\* The stream ends: the loop is left normally.
PrincipalsEnd ==
    /\ pc = "principals:loop"
    /\ pc' = "principals:join"
    /\ UNCHANGED <<read, truncated, ratings, crew, names, principals, languages,
                   original_languages, countries, original_countries, output, raised, returned, outfile>>
    /\ UNCHANGED <<consumed, movies, table>>

\* The stream raises EOFError inside the loop: caught, warning printed.
PrincipalsEOFError ==
    /\ pc = "principals:loop"
    /\ pc' = "principals:join"
    /\ truncated' = truncated \cup {"principals"}
    /\ UNCHANGED <<read, ratings, crew, names, principals, languages,
                   original_languages, countries, original_countries, output, raised, returned, outfile>>
    /\ UNCHANGED <<consumed, movies, table>>

\* The lists become comma-separated strings; return to main, which goes on
\* to load_languages_and_countries.
PrincipalsJoin ==
    /\ pc = "principals:join"
    /\ pc' = "akas:header"
    /\ principals' = [k \in DOMAIN principals |-> Join(principals[k], W(", "))]
    /\ returned' = returned \cup {"principals"}
    /\ UNCHANGED <<read, truncated, ratings, crew, names, languages,
                   original_languages, countries, original_countries, output, raised, outfile>>
    /\ UNCHANGED <<consumed, movies, table>>

(***************************************************************************)
(* process_basics.                                                         *)
(***************************************************************************)
\* text.split(sep): the pieces between the separator tokens.
RECURSIVE Split(_, _)
Split(text, sep) ==
    IF \A i \in 1..Len(text) : text[i] # sep THEN <<text>>
    ELSE LET i == CHOOSE k \in 1..Len(text) :
                      text[k] = sep /\ \A j \in 1..(k - 1) : text[j] # sep
         IN  <<SubSeq(text, 1, i - 1)>> \o Split(SubSeq(text, i + 1, Len(text)), sep)

\* list[:n]
Take(list, n) == IF Len(list) <= n THEN list ELSE SubSeq(list, 1, n)

\* Faulty variant: only the first occurrence is replaced.
ReplaceFirstOnly(text, old, new) ==
    [i \in 1..Len(text) |->
        IF text[i] = old /\ (\A j \in 1..(i - 1) : text[j] # old) THEN new ELSE text[i]]

\* text.replace(old, new) for separator tokens.
Replace(text, old, new) == [i \in 1..Len(text) |-> IF text[i] = old THEN new ELSE text[i]]

\* [names[nid] for nid in ids if nid in names]
RECURSIVE LookupNames(_, _)
LookupNames(ids, nm) ==
    IF ids = << >> THEN << >>
    ELSE IF Has(nm, Head(ids)) THEN <<nm[Head(ids)]>> \o LookupNames(Tail(ids), nm)
    ELSE LookupNames(Tail(ids), nm)

\* Faulty variant: the ids without a name are dropped before the cut to 3.
CrewNamesCutAfterLookup(ids_text, nm) ==
    LET found == IF ids_text # EMPTY
                 THEN Take(LookupNames(Split(ids_text, ","), nm), 3)
                 ELSE << >>
    IN  IF found # << >> THEN Join(found, W(", ")) ELSE EMPTY

\* The directors (writers) field: the names of the first 3 ids, joined.
CrewNames(ids_text, nm) ==
    LET found == IF ids_text # EMPTY
                 THEN LookupNames(Take(Split(ids_text, ","), 3), nm)
                 ELSE << >>
    IN  IF found # << >> THEN Join(found, W(", ")) ELSE EMPTY

\* Faulty variant: a missing runtime does not reject the line.
AcceptsIgnoringRuntime(parts, r) ==
    /\ Len(parts) >= 9
    /\ Part(parts, 1) = W("movie")
    /\ Has(r, Part(parts, 0))
    /\ ~(Part(parts, 5) = NULL \/ Part(parts, 8) = NULL)

\* The line passes every "continue" of the loop body.
Accepts(parts, r) ==
    /\ Len(parts) >= 9
    /\ Part(parts, 1) = W("movie")
    /\ Has(r, Part(parts, 0))
    /\ ~(Part(parts, 5) = NULL \/ Part(parts, 7) = NULL \/ Part(parts, 8) = NULL)

\* Faulty variant: an original title equal to the primary title is kept.
OriginalFieldSentinelOnly(original_title, primary_title) ==
    IF original_title # NULL THEN original_title ELSE EMPTY

\* The original-title field: shown only if different from the primary title.
OriginalField(original_title, primary_title) ==
    IF original_title # NULL /\ original_title # primary_title
    THEN original_title ELSE EMPTY

\* Faulty variant: an isAdult value other than 0 or 1 is written as 0.
RecordAdultClamped(parts, r, c, p, nm, l, co) ==
    LET tconst == Part(parts, 0)
        primary_title == Part(parts, 2)
        original_title == Part(parts, 3)
        is_adult == IF Part(parts, 4) \in {W("0"), W("1")} THEN Part(parts, 4) ELSE W("0")
        start_year == Part(parts, 5)
        runtime_minutes == Part(parts, 7)
        genres == Part(parts, 8)
        avg_rating == r[tconst][1]
        num_votes == r[tconst][2]
        ids == Get(c, tconst, <<EMPTY, EMPTY>>)
        directors == CrewNames(ids[1], nm)
        writers == CrewNames(ids[2], nm)
        cast == Get(p, tconst, EMPTY)
        language == Get(l, tconst, EMPTY)
        country == Get(co, tconst, EMPTY)
        original == OriginalField(original_title, primary_title)
        genres_formatted == Replace(genres, ",", "|")
    IN  <<tconst, primary_title, original, start_year, Format1f(avg_rating),
          FormatInt(num_votes), runtime_minutes \o W(" mins."), genres_formatted,
          directors, writers, cast, language, country, is_adult>>

\* The line written for an accepted line: its 14 tab-separated fields.
Record(parts, r, c, p, nm, l, co) ==
    LET tconst == Part(parts, 0)
        primary_title == Part(parts, 2)
        original_title == Part(parts, 3)
        is_adult == Part(parts, 4)
        start_year == Part(parts, 5)
        runtime_minutes == Part(parts, 7)
        genres == Part(parts, 8)
        avg_rating == r[tconst][1]
        num_votes == r[tconst][2]
        ids == Get(c, tconst, <<EMPTY, EMPTY>>)
        directors == CrewNames(ids[1], nm)
        writers == CrewNames(ids[2], nm)
        cast == Get(p, tconst, EMPTY)
        language == Get(l, tconst, EMPTY)
        country == Get(co, tconst, EMPTY)
        original == OriginalField(original_title, primary_title)
        genres_formatted == Replace(genres, ",", "|")
    IN  <<tconst, primary_title, original, start_year, Format1f(avg_rating),
          FormatInt(num_votes), runtime_minutes \o W(" mins."), genres_formatted,
          directors, writers, cast, language, country, is_adult>>

\* gzip.open and fin.readline() of the header succeed, then the output file
\* is opened for writing, which empties it.
BasicsHeader ==
    /\ pc = "basics:header"
    /\ pc' = "basics:loop"
    /\ output' = << >>
    /\ outfile' = "opened"
    /\ UNCHANGED <<read, truncated, ratings, crew, names, principals, languages,
                   original_languages, countries, original_countries, raised, returned>>
    /\ UNCHANGED <<consumed, movies, table>>

\* gzip.open of the title-attributes archive fails (missing or unreadable
\* file): the exception reaches main before anything else is done.
BasicsOpenError ==
    /\ pc = "basics:header"
    /\ pc' = "main:except"
    /\ raised' = "basics"
    /\ UNCHANGED <<read, truncated, ratings, crew, names, principals, languages,
                   original_languages, countries, original_countries, output, returned, outfile>>
    /\ UNCHANGED <<consumed, movies, table>>

\* Faulty variant: the output file is opened before the header is read.
BasicsHeaderEOFErrorAfterOpen ==
    /\ pc = "basics:header"
    /\ pc' = "main:except"
    /\ raised' = "basics"
    /\ output' = << >>
    /\ outfile' = "opened"
    /\ UNCHANGED <<read, truncated, ratings, crew, names, principals, languages,
                   original_languages, countries, original_countries, returned>>
    /\ UNCHANGED <<consumed, movies, table>>

\* fin.readline() of the header raises EOFError, outside the try and before
\* the output file is opened.
BasicsHeaderEOFError ==
    /\ pc = "basics:header"
    /\ pc' = "main:except"
    /\ raised' = "basics"
    /\ UNCHANGED <<read, truncated, ratings, crew, names, principals, languages,
                   original_languages, countries, original_countries, output, returned, outfile>>
    /\ UNCHANGED <<consumed, movies, table>>

\* Faulty variant: a title already written is not written again.
BasicsRowDedup(line) ==
    /\ pc = "basics:loop"
    /\ Consume("basics", line)
    /\ LET parts == SplitLine(line) IN
       IF Accepts(parts, ratings) /\ (\A k \in 1..Len(output) : output[k][1] # Part(parts, 0))
       THEN output' = Append(output, Record(parts, ratings, crew, principals, names,
                                            languages, countries))
       ELSE UNCHANGED output
    /\ UNCHANGED <<pc, truncated, ratings, crew, names, principals, languages,
                   original_languages, countries, original_countries, raised, returned, outfile>>
    /\ UNCHANGED <<consumed, movies, table>>

\* One iteration of "for line in fin".
BasicsRow(line) ==
    /\ pc = "basics:loop"
    /\ Consume("basics", line)
    /\ LET parts == SplitLine(line) IN
       IF Accepts(parts, ratings)
       THEN output' = Append(output, Record(parts, ratings, crew, principals, names,
                                            languages, countries))
       ELSE UNCHANGED output
    /\ UNCHANGED <<pc, truncated, ratings, crew, names, principals, languages,
                   original_languages, countries, original_countries, raised, returned, outfile>>
    /\ UNCHANGED <<consumed, movies, table>>

\* The stream ends: process_basics returns and main finishes (cleanup, SUCCESS).
BasicsEnd ==
    /\ pc = "basics:loop"
    /\ pc' = "main:done"
    /\ UNCHANGED <<read, truncated, ratings, crew, names, principals, languages,
                   original_languages, countries, original_countries, output, raised, returned, outfile>>
    /\ UNCHANGED <<consumed, movies, table>>

\* The stream raises EOFError inside the loop: caught, warning printed.
BasicsEOFError ==
    /\ pc = "basics:loop"
    /\ pc' = "main:done"
    /\ truncated' = truncated \cup {"basics"}
    /\ UNCHANGED <<read, ratings, crew, names, principals, languages,
                   original_languages, countries, original_countries, output, raised, returned, outfile>>
    /\ UNCHANGED <<consumed, movies, table>>

(***************************************************************************)
(* The alternate-title lines offered to load_languages_and_countries.      *)
(***************************************************************************)
Files == {"ratings", "crew", "names", "principals", "akas", "basics"}
Titles == {W("tt1"), W("tt2")}

AkasLine(t, region, language, orig) ==
    <<W(t), W("1"), W("x"), region, language, NULL, NULL, orig>>

AkasLines ==
    {AkasLine("tt1", NULL, l, o) : l \in {W("en"), W("fr"), W("de"), NULL},
                                   o \in {W("0"), W("1")}}
    \cup {AkasLine("tt1", r, NULL, o) : r \in {W("US"), W("FR"), W("DE")},
                                        o \in {W("0"), W("1")}}
    \cup {AkasLine("tt1", W("US"), W("en"), W("0")),
          AkasLine("tt1", W("FR"), W("fr"), W("1")),
          AkasLine("tt1", W("US"), W("de"), W("1")),
          AkasLine("tt2", W("DE"), W("fr"), W("0")),
          AkasLine("tt2", W("US"), W("en"), W("0")),
          AkasLine("tt1", W("FR"), W("fr"), EMPTY),     \* ends in an empty field
          <<W("tt1"), W("1"), W("x")>>}                 \* too few fields

InitCommon ==
    /\ read = [f \in Files |-> << >>]
    /\ truncated = {}
    /\ ratings = EmptyDict
    /\ crew = EmptyDict
    /\ names = EmptyDict
    /\ principals = EmptyDict
    /\ languages = EmptyDict
    /\ original_languages = EmptyDict
    /\ countries = EmptyDict
    /\ original_countries = EmptyDict
    /\ output = << >>
    /\ raised = "none"
    /\ outfile = "absent"

\* load_languages_and_countries on its own, for every stream of at most
\* MaxAkasRows lines.
InitLocale ==
    /\ pc = "akas:header"
    /\ returned = {"ratings", "crew", "names", "principals"}
    /\ InitCommon
    /\ consumed = 0 /\ movies = << >> /\ table = << >>

NextLocale ==
    \/ AkasHeader
    \/ AkasHeaderEOFError
    \/ \E line \in AkasLines : Len(read["akas"]) < MaxAkasRows /\ AkasRow(line)
    \/ AkasEnd
    \/ AkasEOFError
    \/ AkasMerge

SpecLocale == InitLocale /\ [][NextLocale]_vars

(***************************************************************************)
(* What the alternate-title lines read so far say about a title.           *)
(***************************************************************************)
AkasReturned == pc \in {"basics:header", "basics:loop", "main:done"}

\* The lines of title t that the loop body looked at (8 fields or more).
AkasIdx(t) ==
    {i \in 1..Len(read["akas"]) :
        /\ Len(SplitLine(read["akas"][i])) >= 8
        /\ Part(SplitLine(read["akas"][i]), 0) = t}
LangAt(i) == Language(SplitLine(read["akas"][i]))
RegionAt(i) == Region(SplitLine(read["akas"][i]))
OrigAt(i) == IsOriginal(SplitLine(read["akas"][i]))
MinOf(S) == CHOOSE i \in S : \A j \in S : i <= j

\* C1: when load_languages_and_countries has returned, a title with at least
\* one line of language 'en' has language 'en', and a title with at least one
\* line of region 'US' has country 'US', whatever lines precede or follow.
C1_CanonicalDominance ==
    AkasReturned =>
        \A t \in Titles :
            /\ (\E i \in AkasIdx(t) : LangAt(i) = W("en"))
                  => (Has(languages, t) /\ languages[t] = W("en"))
            /\ (\E i \in AkasIdx(t) : RegionAt(i) = W("US"))
                  => (Has(countries, t) /\ countries[t] = W("US"))

\* C1 witness: an original-flagged 'fr' line, then an 'en' line, then an
\* original-flagged 'de' line, and the pass has returned.
C1_Witness ==
    /\ AkasReturned
    /\ \E t \in Titles : \E i, j, k \in AkasIdx(t) :
          /\ i < j /\ j < k
          /\ LangAt(i) = W("fr") /\ OrigAt(i)
          /\ LangAt(j) = W("en")
          /\ LangAt(k) = W("de") /\ OrigAt(k)
          /\ languages[t] = W("en")

\* C2 (as claimed): when the pass has returned, a title with no canonical line
\* and exactly one original-flagged line with a non-empty language (region)
\* has that line's language (region), whether plain lines precede or follow.
C2_OriginalBeatsFallback ==
    AkasReturned =>
        \A t \in Titles :
            /\ LET O == {i \in AkasIdx(t) : OrigAt(i) /\ LangAt(i) # EMPTY}
               IN  ((\A i \in AkasIdx(t) : LangAt(i) # W("en")) /\ Cardinality(O) = 1)
                      => (Has(languages, t) /\ languages[t] = LangAt(MinOf(O)))
            /\ LET O == {i \in AkasIdx(t) : OrigAt(i) /\ RegionAt(i) # EMPTY}
               IN  ((\A i \in AkasIdx(t) : RegionAt(i) # W("US")) /\ Cardinality(O) = 1)
                      => (Has(countries, t) /\ countries[t] = RegionAt(MinOf(O)))

\* C3 (as claimed): when the pass has returned, a title with no canonical line
\* and several original-flagged lines of different non-empty languages
\* (regions) has the value of the first of them.
C3_FirstOriginalHeld ==
    AkasReturned =>
        \A t \in Titles :
            /\ LET O == {i \in AkasIdx(t) : OrigAt(i) /\ LangAt(i) # EMPTY}
               IN  (/\ \A i \in AkasIdx(t) : LangAt(i) # W("en")
                    /\ \E i, j \in O : LangAt(i) # LangAt(j))
                      => (Has(languages, t) /\ languages[t] = LangAt(MinOf(O)))
            /\ LET O == {i \in AkasIdx(t) : OrigAt(i) /\ RegionAt(i) # EMPTY}
               IN  (/\ \A i \in AkasIdx(t) : RegionAt(i) # W("US")
                    /\ \E i, j \in O : RegionAt(i) # RegionAt(j))
                      => (Has(countries, t) /\ countries[t] = RegionAt(MinOf(O)))

\* C4: when the pass has returned, a title none of whose lines is canonical or
\* original-flagged has the first non-empty language (region) among its lines,
\* and no entry at all when every value is empty.
C4_FallbackSelection ==
    AkasReturned =>
        \A t \in Titles :
            /\ LET V == {i \in AkasIdx(t) : LangAt(i) # EMPTY}
               IN  (\A i \in AkasIdx(t) : LangAt(i) # W("en") /\ ~OrigAt(i))
                      => IF V = {} THEN ~Has(languages, t)
                         ELSE Has(languages, t) /\ languages[t] = LangAt(MinOf(V))
            /\ LET V == {i \in AkasIdx(t) : RegionAt(i) # EMPTY}
               IN  (\A i \in AkasIdx(t) : RegionAt(i) # W("US") /\ ~OrigAt(i))
                      => IF V = {} THEN ~Has(countries, t)
                         ELSE Has(countries, t) /\ countries[t] = RegionAt(MinOf(V))

\* C4 witness: plain lines with language \N, then 'fr', then 'de'; 'fr' is kept.
C4_Witness ==
    /\ AkasReturned
    /\ \E t \in Titles :
          /\ \A i \in AkasIdx(t) : ~OrigAt(i)
          /\ \E i, j, k \in AkasIdx(t) :
                /\ i < j /\ j < k
                /\ LangAt(i) = EMPTY /\ LangAt(j) = W("fr") /\ LangAt(k) = W("de")
          /\ languages[t] = W("fr")

\* C5: in every state, a title for which a canonical line has been processed
\* has no entry in the original-tentative bucket and holds the canonical value
\* (during the rest of the loop, after the merge, and afterwards).
C5_NoResurrection ==
    \A t \in Titles :
        /\ (\E i \in AkasIdx(t) : LangAt(i) = W("en"))
              => (~Has(original_languages, t) /\ Has(languages, t) /\ languages[t] = W("en"))
        /\ (\E i \in AkasIdx(t) : RegionAt(i) = W("US"))
              => (~Has(original_countries, t) /\ Has(countries, t) /\ countries[t] = W("US"))

\* C5 witness: the loop has processed an original-flagged 'fr' line (held as
\* tentative), then an 'en' line, then another original-flagged line.
C5_Witness ==
    /\ pc = "akas:loop"
    /\ \E t \in Titles : \E i, j, k \in AkasIdx(t) :
          /\ i < j /\ j < k
          /\ LangAt(i) = W("fr") /\ OrigAt(i)
          /\ \A h \in AkasIdx(t) : h < j => LangAt(h) # W("en")
          /\ LangAt(j) = W("en")
          /\ LangAt(k) # EMPTY /\ LangAt(k) # W("en") /\ OrigAt(k)
          /\ ~Has(original_languages, t)

(***************************************************************************)
(* load_principals on its own, for a NameIndex that load_names can have    *)
(* built and every stream of at most MaxPrincipalsRows lines.              *)
(***************************************************************************)
Persons == {W("nm1"), W("nm2"), W("nm3"), W("nm4"), W("nm5")}

NameOf(n) ==
    CASE n = W("nm1") -> W("Ada")
      [] n = W("nm2") -> W("Bob")
      [] n = W("nm3") -> W("Cy")
      [] n = W("nm4") -> W("Dee")
      [] OTHER -> W("Eve")

NameDicts == {[n \in S |-> NameOf(n)] : S \in {Persons, Persons \ {W("nm3")}}}

PrincipalsLine(t, n, category) == <<W(t), W("1"), W(n), W(category), NULL, NULL>>

PrincipalsLines ==
    {PrincipalsLine("tt1", "nm1", "actor"),
     PrincipalsLine("tt1", "nm2", "director"),
     PrincipalsLine("tt1", "nm3", "actress"),
     PrincipalsLine("tt1", "nm4", "actor"),
     PrincipalsLine("tt1", "nm5", "actress"),
     PrincipalsLine("tt2", "nm1", "actress"),
     <<W("tt1"), W("1"), W("nm1")>>}                   \* too few fields

InitPrincipals ==
    /\ pc = "principals:header"
    /\ read = [f \in Files |-> << >>]
    /\ truncated = {}
    /\ ratings = EmptyDict
    /\ crew = EmptyDict
    /\ names \in NameDicts
    /\ principals = EmptyDict
    /\ languages = EmptyDict
    /\ original_languages = EmptyDict
    /\ countries = EmptyDict
    /\ original_countries = EmptyDict
    /\ output = << >>
    /\ raised = "none"
    /\ returned = {"ratings", "crew", "names"}
    /\ outfile = "absent"
    /\ consumed = 0 /\ movies = << >> /\ table = << >>

NextPrincipals ==
    \/ PrincipalsHeader
    \/ PrincipalsHeaderEOFError
    \/ \E line \in PrincipalsLines :
          Len(read["principals"]) < MaxPrincipalsRows /\ PrincipalsRow(line)
    \/ PrincipalsEnd
    \/ PrincipalsEOFError
    \/ PrincipalsJoin

SpecPrincipals == InitPrincipals /\ [][NextPrincipals]_vars

\* The lines of title t with 4 fields or more whose category is actor/actress.
CastIdx(t) ==
    {i \in 1..Len(read["principals"]) :
        LET parts == SplitLine(read["principals"][i])
        IN  /\ Len(parts) >= 4
            /\ Part(parts, 0) = t
            /\ Part(parts, 3) \in {W("actor"), W("actress")}}
NthOf(S, n) == CHOOSE i \in S : Cardinality({j \in S : j < i}) = n - 1
Min2(a, b) == IF a < b THEN a ELSE b
\* The display names of the first min(3, k) such lines, 'Unknown' on a miss.
ExpectedCast(t) ==
    [n \in 1..Min2(3, Cardinality(CastIdx(t))) |->
        LET nconst == Part(SplitLine(read["principals"][NthOf(CastIdx(t), n)]), 2)
        IN  IF nconst \in DOMAIN names THEN names[nconst] ELSE W("Unknown")]
CommaJoined(list) ==
    [n \in 1..(IF Len(list) = 0 THEN 0 ELSE 2 * Len(list) - 1) |->
        IF n % 2 = 1 THEN list[(n + 1) \div 2][1] ELSE ", "]

\* C6: while load_principals loops, the list held for a title is exactly the
\* names of its first min(3, k) actor/actress lines in source order ('Unknown'
\* for a person without a name), so it never exceeds 3 names and other
\* categories take no slot; on return the cast is those names joined by ', '.
C6_FirstThreeCast ==
    \A t \in Titles :
        /\ pc \in {"principals:loop", "principals:join"} =>
              /\ Get(principals, t, << >>) = ExpectedCast(t)
              /\ Len(Get(principals, t, << >>)) <= 3
              /\ Has(principals, t) <=> CastIdx(t) # {}
        /\ pc = "akas:header" =>
              Get(principals, t, EMPTY) = CommaJoined(ExpectedCast(t))

\* C6 witness: the lines A(actor), B(director), C(actress), D(actor),
\* E(actress) were read for one title, C has no name, and the returned cast is
\* 'Ada, Unknown, Dee'.
C6_Witness ==
    /\ pc = "akas:header"
    /\ read["principals"] = <<PrincipalsLine("tt1", "nm1", "actor"),
                              PrincipalsLine("tt1", "nm2", "director"),
                              PrincipalsLine("tt1", "nm3", "actress"),
                              PrincipalsLine("tt1", "nm4", "actor"),
                              PrincipalsLine("tt1", "nm5", "actress")>>
    /\ W("nm3") \notin DOMAIN names
    /\ principals[W("tt1")] = <<"Ada", ", ", "Unknown", ", ", "Dee">>

(***************************************************************************)
(* process_basics on its own, for indexes the builders can have returned   *)
(* and every stream of at most MaxBasicsRows lines.                        *)
(***************************************************************************)
RatingsDicts ==
    {EmptyDict,
     [t \in {W("tt1")} |-> <<85, 1000>>],
     [t \in {W("tt1"), W("tt2")} |-> IF t = W("tt1") THEN <<85, 1000>> ELSE <<70, 50>>]}

Ids4 == <<"nm1", ",", "nm2", ",", "nm3", ",", "nm4">>
CrewDicts ==
    {EmptyDict}
    \cup {[t \in {W("tt1")} |-> <<d, w>>] :
            d \in {EMPTY, W("nm3"), <<"nm1", ",", "nm2">>, Ids4},
            w \in {EMPTY, <<"nm3", ",", "nm4", ",", "nm5", ",", "nm1">>}}

BasicsLine(t, type, primary, original, adult, year, runtime, genres) ==
    <<W(t), W(type), primary, original, adult, year, NULL, runtime, genres>>

BasicsLines ==
    {BasicsLine("tt1", "movie", W("Foo"), NULL, W("0"), W("1999"), W("90"),
                <<"Drama", ",", "Comedy">>),
     BasicsLine("tt2", "movie", W("Bar"), W("Bar"), W("1"), W("2001"), W("100"),
                <<"Action", ",", "Crime", ",", "Drama">>),
     BasicsLine("tt1", "movie", W("Foo"), W("LeFoo"), NULL, W("1999"), W("90"), W("Drama")),
     BasicsLine("tt1", "short", W("Foo"), W("Foo"), W("0"), W("1999"), W("90"), W("Drama")),
     BasicsLine("tt1", "movie", W("Foo"), W("LeFoo"), W("0"), NULL, W("90"), W("Drama")),
     BasicsLine("tt1", "movie", W("Foo"), W("LeFoo"), W("0"), W("1999"), NULL, W("Drama")),
     BasicsLine("tt1", "movie", W("Foo"), W("LeFoo"), W("0"), W("1999"), W("90"), NULL),
     BasicsLine("tt1", "movie", W("Foo"), W("LeFoo"), W("0"), W("1999"), W("90"), EMPTY),
     <<W("tt1"), W("movie"), W("Foo"), NULL, W("0"), W("1999"), NULL, W("90")>>}

InitBasics ==
    /\ pc = "basics:header"
    /\ read = [f \in Files |-> << >>]
    /\ truncated = {}
    /\ ratings \in RatingsDicts
    /\ crew \in CrewDicts
    /\ names \in NameDicts
    /\ principals \in {EmptyDict, [t \in {W("tt1")} |-> <<"Ada", ", ", "Unknown">>]}
    /\ languages \in {EmptyDict, [t \in {W("tt1")} |-> W("en")]}
    /\ original_languages = EmptyDict
    /\ countries \in {EmptyDict, [t \in {W("tt2")} |-> W("FR")]}
    /\ original_countries = EmptyDict
    /\ output = << >>
    /\ raised = "none"
    /\ returned = {"ratings", "crew", "names", "principals", "akas"}
    /\ outfile \in {"absent", "previous"}
    /\ consumed = 0 /\ movies = << >> /\ table = << >>

NextBasics ==
    \/ BasicsHeader
    \/ BasicsOpenError
    \/ BasicsHeaderEOFError
    \/ \E line \in BasicsLines : Len(read["basics"]) < MaxBasicsRows /\ BasicsRow(line)
    \/ BasicsEnd
    \/ BasicsEOFError

SpecBasics == InitBasics /\ [][NextBasics]_vars

\* The claim's inclusion test, on the fields the loop body obtains from a line.
Qualifies(line) ==
    LET parts == SplitLine(line)
    IN  /\ Len(parts) >= 9
        /\ Part(parts, 1) = W("movie")
        /\ Part(parts, 0) \in DOMAIN ratings
        /\ Part(parts, 5) # NULL
        /\ Part(parts, 7) # NULL
        /\ Part(parts, 8) # NULL
QualIdx == {i \in 1..Len(read["basics"]) : Qualifies(read["basics"][i])}

\* C7: in every state, the records written are in one-to-one, order-preserving
\* correspondence with the lines read so far that have 9 fields or more,
\* titleType 'movie', a RatingsIndex entry and no \N in startYear,
\* runtimeMinutes, genres; and no line read makes the pass raise.
C7_InclusionFilter ==
    /\ Len(output) = Cardinality(QualIdx)
    /\ \A k \in 1..Len(output) :
          LET parts == SplitLine(read["basics"][NthOf(QualIdx, k)])
          IN  output[k][1] = Part(parts, 0) /\ output[k][2] = Part(parts, 2)
    /\ read["basics"] # << >> => raised = "none"

\* C7 witness: the pass ended after a rated movie line, which was written, and
\* a rated movie line missing only its runtime, which was skipped.
C7_Witness ==
    /\ pc = "main:done"
    /\ Len(read["basics"]) = 2
    /\ Len(output) = 1
    /\ \E i \in 1..2 : LET parts == SplitLine(read["basics"][i])
                       IN  Len(parts) >= 9 /\ Part(parts, 7) = NULL
                           /\ Part(parts, 5) # NULL /\ Part(parts, 8) # NULL
                           /\ Part(parts, 1) = W("movie") /\ Has(ratings, Part(parts, 0))

\* The ids of a comma-separated id list, one word each.
IdsOf(text) == [n \in 1..((Len(text) + 1) \div 2) |-> <<text[2 * n - 1]>>]
\* The names of those among the first 3 ids that NameIndex knows, in order.
ExpectedCrewNames(text) ==
    LET ids == IdsOf(text)
        K == {n \in 1..Min2(3, Len(ids)) : ids[n] \in DOMAIN names}
    IN  [m \in 1..Cardinality(K) |-> names[ids[NthOf(K, m)]]]

\* C8: every record written has as directors (writers) field the ', '-joined
\* names of those among the first 3 ids of the title's CrewIndex director
\* (writer) list that have a name, in order; at most 3 names; empty when the
\* title has no CrewIndex entry or the list is absent.
C8_CrewResolution ==
    \A k \in 1..Len(output) :
        LET t == output[k][1]
            ids == IF t \in DOMAIN crew THEN crew[t] ELSE <<EMPTY, EMPTY>>
        IN  /\ output[k][9] = CommaJoined(ExpectedCrewNames(ids[1]))
            /\ output[k][10] = CommaJoined(ExpectedCrewNames(ids[2]))
            /\ Len(ExpectedCrewNames(ids[1])) <= 3
            /\ Len(ExpectedCrewNames(ids[2])) <= 3
            /\ Len(output[k][9]) <= 5 /\ Len(output[k][10]) <= 5

\* C8 witness: a record for a title with director ids nm1,nm2,nm3,nm4 where
\* nm3 has no name: the field is 'Ada, Bob' (nm4 is cut off, nm3 omitted).
C8_Witness ==
    \E k \in 1..Len(output) :
        /\ Has(crew, output[k][1])
        /\ crew[output[k][1]][1] = Ids4
        /\ W("nm3") \notin DOMAIN names
        /\ output[k][9] = <<"Ada", ", ", "Bob">>
        /\ output[k][10] = <<"Dee", ", ", "Eve">>

(***************************************************************************)
(* main: the five builders one after the other, then process_basics.  The  *)
(* downloads are outside the model (every archive is taken to be present). *)
(***************************************************************************)
MainRatingsLines ==
    {<<W("tt1"), W("8.5"), W("1000")>>, <<W("tt2"), W("7.0"), W("50")>>}
MainCrewLines == {<<W("tt1"), <<"nm1", ",", "nm2">>, NULL>>}
MainNamesLines == {<<W("nm1"), W("Ada"), W("1900")>>}
MainPrincipalsLines == {PrincipalsLine("tt1", "nm1", "actor")}
MainAkasLines == {AkasLine("tt1", W("FR"), W("fr"), W("1"))}
MainBasicsLines ==
    {BasicsLine("tt1", "movie", W("Foo"), NULL, W("0"), W("1999"), W("90"),
                <<"Drama", ",", "Comedy">>),
     BasicsLine("tt2", "movie", W("Bar"), W("Bar"), W("1"), W("2001"), W("100"), W("Drama"))}

Init ==
    /\ pc = "ratings:header"
    /\ returned = {}
    /\ InitCommon
    /\ consumed = 0 /\ movies = << >> /\ table = << >>

Next ==
    \/ RatingsHeader
    \/ RatingsHeaderEOFError
    \/ \E line \in MainRatingsLines : Len(read["ratings"]) < MaxMainRows /\ RatingsRow(line)
    \/ RatingsEnd
    \/ RatingsEOFError
    \/ CrewHeader
    \/ CrewHeaderEOFError
    \/ \E line \in MainCrewLines : Len(read["crew"]) < MaxMainRows /\ CrewRow(line)
    \/ CrewEnd
    \/ CrewEOFError
    \/ NamesHeader
    \/ NamesHeaderEOFError
    \/ \E line \in MainNamesLines : Len(read["names"]) < MaxMainRows /\ NamesRow(line)
    \/ NamesEnd
    \/ NamesEOFError
    \/ PrincipalsHeader
    \/ PrincipalsHeaderEOFError
    \/ \E line \in MainPrincipalsLines :
          Len(read["principals"]) < MaxMainRows /\ PrincipalsRow(line)
    \/ PrincipalsEnd
    \/ PrincipalsEOFError
    \/ PrincipalsJoin
    \/ AkasHeader
    \/ AkasHeaderEOFError
    \/ \E line \in MainAkasLines : Len(read["akas"]) < MaxMainRows /\ AkasRow(line)
    \/ AkasEnd
    \/ AkasEOFError
    \/ AkasMerge
    \/ BasicsHeader
    \/ BasicsOpenError
    \/ BasicsHeaderEOFError
    \/ \E line \in MainBasicsLines : Len(read["basics"]) < MaxBasicsRows /\ BasicsRow(line)
    \/ BasicsEnd
    \/ BasicsEOFError

Spec == Init /\ [][Next]_vars

\* The well-formed ratings lines read so far, and the index they describe.
ValidRatingsIdx ==
    {i \in 1..Len(read["ratings"]) :
        LET parts == SplitLine(read["ratings"][i])
        IN  Len(parts) >= 3 /\ IsFloat(Part(parts, 1)) /\ IsInt(Part(parts, 2))}
RatedTitles == {Part(SplitLine(read["ratings"][i]), 0) : i \in ValidRatingsIdx}
ExpectedRatings ==
    [t \in RatedTitles |->
        LET i == CHOOSE i \in ValidRatingsIdx :
                    /\ Part(SplitLine(read["ratings"][i]), 0) = t
                    /\ \A j \in ValidRatingsIdx :
                          Part(SplitLine(read["ratings"][j]), 0) = t => j <= i
            parts == SplitLine(read["ratings"][i])
        IN  <<FloatOf(Part(parts, 1)), IntOf(Part(parts, 2))>>]
\* The title-attributes lines read so far that qualify given the titles rated
\* before the cut.
QualBeforeCut ==
    {i \in 1..Len(read["basics"]) :
        LET parts == SplitLine(read["basics"][i])
        IN  /\ Len(parts) >= 9
            /\ Part(parts, 1) = W("movie")
            /\ Part(parts, 0) \in RatedTitles
            /\ Part(parts, 5) # NULL /\ Part(parts, 7) # NULL /\ Part(parts, 8) # NULL}

\* C9: once the ratings stream has failed with EOFError inside the loop,
\* load_ratings has returned (nothing was raised to main), the index holds
\* exactly the entries of the lines read before the fault, and process_basics
\* writes a record for exactly the qualifying lines whose title was rated
\* before the cut, none for a title rated only beyond it.
C9_RatingsTruncation ==
    "ratings" \in truncated =>
        /\ raised # "ratings"
        /\ pc \notin {"ratings:header", "ratings:loop"}
        /\ ratings = ExpectedRatings
        /\ \A k \in 1..Len(output) : output[k][1] \in RatedTitles
        /\ pc \in {"basics:loop", "main:done"} =>
              /\ Len(output) = Cardinality(QualBeforeCut)
              /\ \A k \in 1..Len(output) :
                    output[k][1] = Part(SplitLine(read["basics"][NthOf(QualBeforeCut, k)]), 0)

\* C9 witness: the ratings stream was cut after the line of tt1; the run is
\* over, the lines of tt1 and tt2 were both read from the title attributes
\* and only the record of tt1 was written.
C9_Witness ==
    /\ pc = "main:done"
    /\ "ratings" \in truncated
    /\ read["ratings"] = <<<<W("tt1"), W("8.5"), W("1000")>>>>
    /\ \E i, j \in 1..Len(read["basics"]) :
          /\ Part(SplitLine(read["basics"][i]), 0) = W("tt1")
          /\ Part(SplitLine(read["basics"][j]), 0) = W("tt2")
    /\ Len(output) = 1
    /\ output[1][1] = W("tt1")

\* C10 (as claimed): no end-of-stream fault in the source of any of the five
\* builders, wherever it occurs, reaches main as an exception; the run goes
\* on to process_basics.
C10_TruncationNeverFatal ==
    raised \notin {"ratings", "crew", "names", "principals", "akas"}

(***************************************************************************)
(* load_crew followed by load_names, for every pair of streams of at most  *)
(* MaxIndexRows lines each.                                                *)
(***************************************************************************)
CrewLines ==
    {<<W("tt1"), <<"nm1", ",", "nm2">>, NULL>>,
     <<W("tt1"), NULL, W("nm1")>>,
     <<W("tt2"), NULL, NULL>>,
     <<W("tt1"), W("nm1")>>}                           \* too few fields
NamesLines ==
    {<<W("nm1"), W("Ada")>>,
     <<W("nm1"), NULL>>,                               \* a person without a name
     <<W("nm2"), W("Bob"), W("1900")>>,
     <<W("nm1")>>}                                     \* too few fields

InitIndexes ==
    /\ pc = "crew:header"
    /\ returned = {"ratings"}
    /\ InitCommon
    /\ consumed = 0 /\ movies = << >> /\ table = << >>

NextIndexes ==
    \/ CrewHeader
    \/ CrewHeaderEOFError
    \/ \E line \in CrewLines : Len(read["crew"]) < MaxIndexRows /\ CrewRow(line)
    \/ CrewEnd
    \/ CrewEOFError
    \/ NamesHeader
    \/ NamesHeaderEOFError
    \/ \E line \in NamesLines : Len(read["names"]) < MaxIndexRows /\ NamesRow(line)
    \/ NamesEnd
    \/ NamesEOFError

SpecIndexes == InitIndexes /\ [][NextIndexes]_vars

\* C11 (as claimed): once load_crew and load_names have returned, no director
\* list, writer list or display name held in CrewIndex or NameIndex is the
\* literal \N (RatingsIndex holds numbers only).
C11_NoSentinelInIndexes ==
    /\ "crew" \in returned =>
          \A t \in DOMAIN crew : crew[t][1] # NULL /\ crew[t][2] # NULL
    /\ "names" \in returned =>
          \A n \in DOMAIN names : names[n] # NULL

(***************************************************************************)
(* load_ratings on its own, for every stream of at most MaxRatingsRows     *)
(* lines, well-formed or not.                                              *)
(***************************************************************************)
RatingsLines ==
    {<<W("tt1"), W("8.5"), W("1000")>>,
     <<W("tt1"), W("7"), W("50")>>,
     <<W("tt2"), W("7.0"), W("50")>>,
     <<W("tt1"), W("abc"), W("50")>>,                  \* rating not numeric
     <<W("tt1"), W("8.5"), W("7.0")>>,                 \* votes not an integer
     <<W("tt1"), W("8.5")>>}                           \* too few fields

InitRatings ==
    /\ pc = "ratings:header"
    /\ returned = {}
    /\ InitCommon
    /\ consumed = 0 /\ movies = << >> /\ table = << >>

NextRatings ==
    \/ RatingsHeader
    \/ RatingsHeaderEOFError
    \/ \E line \in RatingsLines : Len(read["ratings"]) < MaxRatingsRows /\ RatingsRow(line)
    \/ RatingsEnd
    \/ RatingsEOFError

SpecRatings == InitRatings /\ [][NextRatings]_vars

\* C12: while load_ratings loops and when it has returned, the index maps each
\* title to the rating and votes of the last well-formed line read for it (3
\* fields or more, numeric rating, integer votes); a malformed line changes
\* nothing, and no line read makes load_ratings raise.
C12_LastWellFormedWins ==
    pc \in {"ratings:loop", "crew:header"} =>
        /\ ratings = ExpectedRatings
        /\ raised = "none"

\* C12 witness: a well-formed line of tt1, then a malformed line of tt1, then
\* another well-formed line of tt1 were read; the index holds the last one.
C12_Witness ==
    /\ pc = "crew:header"
    /\ read["ratings"] = <<<<W("tt1"), W("8.5"), W("1000")>>,
                           <<W("tt1"), W("abc"), W("50")>>,
                           <<W("tt1"), W("7"), W("50")>>>>
    /\ ratings[W("tt1")] = <<70, 50>>

\* The NameIndex that the names lines read so far describe.
ValidNamesIdx == {i \in 1..Len(read["names"]) : Len(SplitLine(read["names"][i])) >= 2}
ExpectedNames ==
    [n \in {Part(SplitLine(read["names"][i]), 0) : i \in ValidNamesIdx} |->
        LET i == CHOOSE i \in ValidNamesIdx :
                    /\ Part(SplitLine(read["names"][i]), 0) = n
                    /\ \A j \in ValidNamesIdx :
                          Part(SplitLine(read["names"][j]), 0) = n => j <= i
        IN  Part(SplitLine(read["names"][i]), 1)]
Builders == {"ratings", "crew", "names", "principals", "akas"}

\* C13: in every state of a run of main, load_principals is running only if
\* load_names has returned, and it works on the NameIndex built from all the
\* names lines read; process_basics is running, has opened the output or has
\* read a title-attributes line only if all five builders have returned; a
\* builder that has not returned has handed no index to a later stage.
C13_StageOrdering ==
    /\ pc \in {"principals:header", "principals:loop", "principals:join"} =>
          /\ "names" \in returned
          /\ names = ExpectedNames
    /\ (pc \in {"basics:header", "basics:loop"} \/ read["basics"] # << >>
           \/ outfile = "opened" \/ output # << >>) => Builders \subseteq returned
    /\ read["principals"] # << >> => "names" \in returned
    /\ pc = "main:done" => Builders \subseteq returned

\* C13 witness: process_basics has written a record while all five builders
\* have returned, with a name, a cast and a language in the indexes.
C13_Witness ==
    /\ pc = "basics:loop"
    /\ output # << >>
    /\ returned = Builders
    /\ names # EmptyDict
    /\ principals # EmptyDict
    /\ languages # EmptyDict


(***************************************************************************)
(* process_basics: the fields of the records written.                      *)
(***************************************************************************)
\* The fields of the line the k-th record written was made from.
SourceOf(k) == SplitLine(read["basics"][NthOf(QualIdx, k)])

\* C14: for every record written, the originalTitle field is empty when the
\* source originalTitle is the sentinel \N or equals the primaryTitle, and is
\* otherwise the source originalTitle unchanged.
C14_OriginalTitleSuppression ==
    /\ Len(output) = Cardinality(QualIdx)
    /\ \A k \in 1..Len(output) :
          LET parts == SourceOf(k)
          IN  output[k][3] = IF Part(parts, 3) = NULL \/ Part(parts, 3) = Part(parts, 2)
                             THEN EMPTY
                             ELSE Part(parts, 3)

\* C14 witness: two records were written, one from a line whose original
\* title equals its primary title (field empty), one from a line whose
\* original title differs (field 'LeFoo').
C14_Witness ==
    /\ Len(output) = 2
    /\ \E i, j \in 1..2 :
          /\ Part(SourceOf(i), 3) = Part(SourceOf(i), 2)
          /\ output[i][3] = EMPTY
          /\ Part(SourceOf(j), 3) = W("LeFoo")
          /\ output[j][2] = W("Foo")
          /\ output[j][3] = W("LeFoo")

\* The value a dict holds for a key, or the empty string.
ValueOrEmpty(dict, key) == IF key \in DOMAIN dict THEN dict[key] ELSE EMPTY

\* The line the spec's end-to-end example must produce.
EndToEndLine ==
    <<W("tt1"), W("Foo"), EMPTY, W("1999"), W("8.5"), W("1000"), <<"90", " mins.">>,
      <<"Drama", "|", "Comedy">>, <<"Ada", ", ", "Bob">>, EMPTY, EMPTY, EMPTY, EMPTY, W("0")>>

\* C15: every record written has exactly 14 fields, in the order titleId,
\* primaryTitle, originalTitle or empty, year, rating with one decimal, votes,
\* runtimeMinutes followed by ' mins.', genres with every ',' replaced by '|'
\* and nothing else changed, directors, writers, cast, language, country,
\* isAdult; a title without cast, language or country has an empty field
\* there; and the end-to-end input produces the end-to-end line.
C15_OutputLayout ==
    /\ Len(output) = Cardinality(QualIdx)
    /\ \A k \in 1..Len(output) :
          LET parts == SourceOf(k)
              t == Part(parts, 0)
              genres == Part(parts, 8)
              ids == IF t \in DOMAIN crew THEN crew[t] ELSE <<EMPTY, EMPTY>>
          IN  /\ Len(output[k]) = 14
              /\ output[k][1] = t
              /\ output[k][2] = Part(parts, 2)
              /\ output[k][3] \in {EMPTY, Part(parts, 3)}
              /\ output[k][4] = Part(parts, 5)
              /\ output[k][5] = Format1f(ratings[t][1])
              /\ output[k][6] = FormatInt(ratings[t][2])
              /\ output[k][7] = Part(parts, 7) \o <<" mins.">>
              /\ Len(output[k][8]) = Len(genres)
              /\ \A i \in 1..Len(genres) :
                    output[k][8][i] = IF genres[i] = "," THEN "|" ELSE genres[i]
              /\ output[k][9] = CommaJoined(ExpectedCrewNames(ids[1]))
              /\ output[k][10] = CommaJoined(ExpectedCrewNames(ids[2]))
              /\ output[k][11] = ValueOrEmpty(principals, t)
              /\ output[k][12] = ValueOrEmpty(languages, t)
              /\ output[k][13] = ValueOrEmpty(countries, t)
              /\ output[k][14] = Part(parts, 4)
    /\ (/\ Len(read["basics"]) = 1
        /\ read["basics"][1] = BasicsLine("tt1", "movie", W("Foo"), NULL, W("0"), W("1999"),
                                          W("90"), <<"Drama", ",", "Comedy">>)
        /\ ratings = [t \in {W("tt1")} |-> <<85, 1000>>]
        /\ crew = [t \in {W("tt1")} |-> <<<<"nm1", ",", "nm2">>, EMPTY>>]
        /\ names[W("nm1")] = W("Ada") /\ names[W("nm2")] = W("Bob")
        /\ principals = EmptyDict /\ languages = EmptyDict /\ countries = EmptyDict)
       => output = <<EndToEndLine>>

\* C15 witness: the end-to-end input was processed to its end and the one
\* line written is the end-to-end line.
C15_Witness ==
    /\ pc = "main:done"
    /\ Len(read["basics"]) = 1
    /\ crew = [t \in {W("tt1")} |-> <<<<"nm1", ",", "nm2">>, EMPTY>>]
    /\ principals = EmptyDict /\ languages = EmptyDict /\ countries = EmptyDict
    /\ output = <<EndToEndLine>>

\* C16: a step in which the title-attributes archive cannot be opened, or its
\* header cannot be read, takes the run to main's handler with the cause
\* recorded, and leaves the output file as it was: not created, not truncated,
\* no record written, no line read.
C16_FatalBasics ==
    [][raised' = "basics" =>
          /\ pc' = "main:except"
          /\ outfile' = outfile
          /\ outfile' \in {"absent", "previous"}
          /\ output' = output
          /\ output' = << >>
          /\ read'["basics"] = << >>]_vars

\* C16 witness: the run was aborted by the title-attributes archive while an
\* output file of a previous run exists, and that file is still as it was.
C16_Witness ==
    /\ raised = "basics"
    /\ pc = "main:except"
    /\ outfile = "previous"
    /\ output = << >>

C19_StreamingOrder ==
    /\ output = [k \in 1..Cardinality(QualIdx) |->
                    Record(SourceOf(k), ratings, crew, principals, names,
                           languages, countries)]
    /\ "basics" \in truncated => pc = "main:done" /\ raised = "none"
    /\ pc = "main:done" => raised = "none" /\ outfile = "opened"

\* C19 witness: the stream was cut after the same accepted line had been read
\* twice; two equal records were written and the pass ended normally.
C19_Witness ==
    /\ pc = "main:done"
    /\ "basics" \in truncated
    /\ Len(read["basics"]) = 2
    /\ read["basics"][1] = read["basics"][2]
    /\ Len(output) = 2
    /\ output[1] = output[2]

\* C20: no step of process_basics, truncated or not, changes ratings, crew,
\* names, principals, languages or countries, and no step of load_principals
\* changes names.
C20_IndexesReadOnly ==
    [][/\ pc \in {"basics:header", "basics:loop"} =>
             UNCHANGED <<ratings, crew, names, principals, languages, countries>>
       /\ pc \in {"principals:header", "principals:loop", "principals:join"} =>
             names' = names]_vars

\* C20 witness: a run whose principals had a cast line for a person without a
\* name and whose title-attributes pass wrote a record and was then cut short.
C20_Witness ==
    /\ pc = "main:done"
    /\ "basics" \in truncated
    /\ output # << >>
    /\ \E i \in 1..Len(read["principals"]) :
          LET parts == SplitLine(read["principals"][i])
          IN  Len(parts) >= 4 /\ Part(parts, 3) \in {W("actor"), W("actress")}
              /\ ~Has(names, Part(parts, 2))
    /\ ratings # EmptyDict

(***************************************************************************)
(* load_languages_and_countries: the two resolutions side by side.         *)
(***************************************************************************)
\* The lines with every region (resp. language) field replaced by \N; a line
\* too short to have the field is left as it is.
EraseField(lines, i) ==
    [n \in 1..Len(lines) |->
        IF Len(lines[n]) >= i THEN [lines[n] EXCEPT ![i] = NULL] ELSE lines[n]]
EraseRegions(lines) == EraseField(lines, 4)
EraseLanguages(lines) == EraseField(lines, 5)

\* C21: when load_languages_and_countries has returned, the languages it
\* returned are those it returns for the same lines with every region erased,
\* and the countries those it returns for the same lines with every language
\* erased.  Two streams with the same (titleId, language, is-original)
\* projection become the same stream once their regions are erased, so they
\* have the same languages; likewise for countries.
C21_LocaleIndependence ==
    AkasReturned =>
        /\ <<languages, countries>> = LoadLanguagesAndCountries(read["akas"])
        /\ languages = LoadLanguagesAndCountries(EraseRegions(read["akas"]))[1]
        /\ countries = LoadLanguagesAndCountries(EraseLanguages(read["akas"]))[2]

\* C21 witness: the function returned after a line with a region and a
\* language that gave the title both, and after a line without a language
\* whose region became another title's country.
C21_Witness ==
    /\ AkasReturned
    /\ \E i, j \in 1..Len(read["akas"]) :
          LET pi == SplitLine(read["akas"][i])
              pj == SplitLine(read["akas"][j])
          IN  /\ Len(pi) >= 8 /\ Len(pj) >= 8
              /\ Language(pi) # EMPTY /\ Region(pi) # EMPTY
              /\ Get(languages, Part(pi, 0), EMPTY) = Language(pi)
              /\ Get(countries, Part(pi, 0), EMPTY) = Region(pi)
              /\ Language(pj) = EMPTY /\ Region(pj) # EMPTY
              /\ Part(pj, 0) # Part(pi, 0)
              /\ Get(countries, Part(pj, 0), EMPTY) = Region(pj)
              /\ ~Has(languages, Part(pj, 0))

\* The two dicts have no key in common.
Disjoint(d, e) == (DOMAIN d) \cap (DOMAIN e) = {}
\* Every entry of d is an entry of e.
Within(d, e) == \A t \in DOMAIN d : t \in DOMAIN e /\ e[t] = d[t]

\* C22: while load_languages_and_countries loops and when it reaches its merge
\* loops, no title is a key of both languages and original_languages, nor of
\* both countries and original_countries; so the merge step installs every
\* entry of the original dicts, keeps every entry already held, and the keys
\* of each returned dict are the disjoint union of the keys of its two dicts.
C22_BucketDisjointness ==
    [][/\ pc' \in {"akas:loop", "akas:merge"} =>
             /\ Disjoint(languages', original_languages')
             /\ Disjoint(countries', original_countries')
       /\ (pc = "akas:merge" /\ pc' # "akas:merge") =>
             /\ Disjoint(languages, original_languages)
             /\ Disjoint(countries, original_countries)
             /\ DOMAIN languages' = (DOMAIN languages) \cup (DOMAIN original_languages)
             /\ DOMAIN countries' = (DOMAIN countries) \cup (DOMAIN original_countries)
             /\ Within(original_languages, languages')
             /\ Within(languages, languages')
             /\ Within(original_countries, countries')
             /\ Within(countries, countries')]_vars

\* C22 witness: the function returned languages for two titles, one installed
\* from original_languages by the merge and one held in languages before it,
\* after a line with a third language for the first title had been passed over.
C22_Witness ==
    /\ AkasReturned
    /\ \E t, u \in Titles :
          /\ t # u
          /\ Has(original_languages, t)
          /\ languages[t] = original_languages[t]
          /\ ~Has(original_languages, u)
          /\ Has(languages, u)
          /\ \E i \in AkasIdx(t) : LangAt(i) \notin {EMPTY, languages[t]}

(***************************************************************************)
(* convert_to_sqlite.py, create_database: the loader of the output file.   *)
(* A row of table movies is the 15-tuple of the INSERT statement; a text   *)
(* column holds a text or None, a numeric column a number.                 *)
(***************************************************************************)
None == <<"None">>

\* "x if x else None"
NoneIfEmpty(text) == IF text = EMPTY THEN None ELSE text

\* str.isdigit() on the numeric words of the model.
IsDigit(text) == IsInt(text)

\* duration_text.split(): the words of the text; the suffix ' mins.' is the
\* word 'mins.', every other token is a word of its own.
Words(text) == [i \in 1..Len(text) |-> IF text[i] = " mins." THEN W("mins.") ELSE <<text[i]>>]

\* int(duration_text.split()[0]) if duration_text.split()[0].isdigit() else 0
DurationMins(duration_text) ==
    IF IsDigit(Words(duration_text)[1]) THEN IntOf(Words(duration_text)[1]) ELSE 0

\* The try block raises neither ValueError nor IndexError: the duration text
\* has a word, and year, rating and votes convert (fields y, y+1, y+2).
Converts(parts, y) ==
    /\ Words(Part(parts, y + 3)) # << >>
    /\ IsInt(Part(parts, y))
    /\ IsFloat(Part(parts, y + 1))
    /\ IsInt(Part(parts, y + 2))

\* The isAdult column of the 13-or-more-field branch.
AdultColumn(parts) ==
    IF Len(parts) >= 14 /\ Part(parts, 13) \in {W("0"), W("1")} THEN IntOf(Part(parts, 13)) ELSE 0

\* The tuple appended by the branch for 11, 12, 13 or more fields; the older
\* layouts have no country, no language, no isAdult.
RowOf(parts) ==
    <<Part(parts, 0), Part(parts, 1), NoneIfEmpty(Part(parts, 2)),
      IntOf(Part(parts, 3)), FloatOf(Part(parts, 4)), IntOf(Part(parts, 5)),
      DurationMins(Part(parts, 6)), Part(parts, 6), Part(parts, 7),
      NoneIfEmpty(Part(parts, 8)), NoneIfEmpty(Part(parts, 9)), NoneIfEmpty(Part(parts, 10)),
      IF Len(parts) >= 12 THEN NoneIfEmpty(Part(parts, 11)) ELSE None,
      IF Len(parts) >= 13 THEN NoneIfEmpty(Part(parts, 12)) ELSE None,
      IF Len(parts) >= 13 THEN AdultColumn(parts) ELSE 0>>

\* The tuple appended by the 7-field branch.
RowOf7(parts) ==
    <<Part(parts, 0), Part(parts, 1), None,
      IntOf(Part(parts, 2)), FloatOf(Part(parts, 3)), IntOf(Part(parts, 4)),
      DurationMins(Part(parts, 5)), Part(parts, 5), Part(parts, 6),
      None, None, None, None, None, 0>>

\* movies after the loop body for a line with the given fields.
LoaderStep(rows, parts) ==
    IF Len(parts) >= 11
    THEN (IF Converts(parts, 3) THEN Append(rows, RowOf(parts)) ELSE rows)
    ELSE IF Len(parts) >= 7
    THEN (IF Converts(parts, 2) THEN Append(rows, RowOf7(parts)) ELSE rows)
    ELSE rows

\* No two of the rows have the same imdb_id (column UNIQUE).
UniqueIds(rows) == \A i, j \in 1..Len(rows) : rows[i][1] = rows[j][1] => i = j

\* create_database is run on the file process_basics wrote: the file exists,
\* the database is created anew with an empty table movies.
LoaderStart ==
    /\ pc = "main:done"
    /\ pc' = "loader:loop"
    /\ consumed' = 0
    /\ movies' = << >>
    /\ table' = << >>
    /\ UNCHANGED <<read, truncated, ratings, crew, names, principals, languages,
                   original_languages, countries, original_countries, output, raised,
                   returned, outfile>>

\* One iteration of "for line in f" over the output file.
LoaderRow ==
    /\ pc = "loader:loop"
    /\ consumed < Len(output)
    /\ consumed' = consumed + 1
    /\ movies' = LoaderStep(movies, SplitLine(output[consumed + 1]))
    /\ UNCHANGED <<pc, read, truncated, ratings, crew, names, principals, languages,
                   original_languages, countries, original_countries, output, raised,
                   returned, outfile, table>>

\* The file is at its end: executemany inserts the rows, the indexes are
\* created and the transaction is committed.
LoaderInsert ==
    /\ pc = "loader:loop"
    /\ consumed = Len(output)
    /\ UniqueIds(movies)
    /\ pc' = "loader:done"
    /\ table' = movies
    /\ UNCHANGED <<read, truncated, ratings, crew, names, principals, languages,
                   original_languages, countries, original_countries, output, raised,
                   returned, outfile, consumed, movies>>

\* The file is at its end and two rows have the same imdb_id: executemany
\* raises sqlite3.IntegrityError, which nothing catches; nothing is committed.
LoaderIntegrityError ==
    /\ pc = "loader:loop"
    /\ consumed = Len(output)
    /\ ~UniqueIds(movies)
    /\ pc' = "loader:except"
    /\ raised' = "loader"
    /\ UNCHANGED <<read, truncated, ratings, crew, names, principals, languages,
                   original_languages, countries, original_countries, output,
                   returned, outfile, consumed, movies, table>>

(***************************************************************************)
(* process_basics followed by create_database on the file it wrote.        *)
(***************************************************************************)
MaxLoaderRows == 2

LoaderBasicsLines ==
    {BasicsLine("tt1", "movie", W("Foo"), NULL, W("0"), W("1999"), W("90"),
                <<"Drama", ",", "Comedy">>),
     BasicsLine("tt2", "movie", W("Bar"), W("LeBar"), W("1"), W("2001"), W("100"), W("Drama")),
     BasicsLine("tt1", "movie", W("Foo"), NULL, NULL, W("1999"), W("90"), W("Drama")),
     BasicsLine("tt1", "movie", W("Foo"), NULL, EMPTY, W("1999"), W("90"), W("Drama")),
     BasicsLine("tt2", "movie", W("Bar"), NULL, W("0"), W("abc"), W("100"), W("Drama")),
     BasicsLine("tt1", "short", W("Foo"), NULL, W("0"), W("1999"), W("90"), W("Drama"))}

InitLoader ==
    /\ pc = "basics:header"
    /\ read = [f \in Files |-> << >>]
    /\ truncated = {}
    /\ ratings = [t \in Titles |-> IF t = W("tt1") THEN <<85, 1000>> ELSE <<70, 50>>]
    /\ crew \in {EmptyDict, [t \in Titles |-> <<<<"nm1", ",", "nm2">>, W("nm3")>>]}
    /\ names = [n \in Persons |-> NameOf(n)]
    /\ principals \in {EmptyDict, [t \in Titles |-> <<"Ada", ", ", "Unknown">>]}
    /\ languages \in {EmptyDict, [t \in Titles |-> W("en")]}
    /\ original_languages = EmptyDict
    /\ countries \in {EmptyDict, [t \in Titles |-> W("US")]}
    /\ original_countries = EmptyDict
    /\ output = << >>
    /\ raised = "none"
    /\ returned = {"ratings", "crew", "names", "principals", "akas"}
    /\ outfile \in {"absent", "previous"}
    /\ consumed = 0 /\ movies = << >> /\ table = << >>

NextLoader ==
    \/ BasicsHeader
    \/ \E line \in LoaderBasicsLines : Len(read["basics"]) < MaxLoaderRows /\ BasicsRow(line)
    \/ BasicsEnd
    \/ BasicsEOFError
    \/ LoaderStart
    \/ LoaderRow
    \/ LoaderInsert
    \/ LoaderIntegrityError

SpecLoader == InitLoader /\ [][NextLoader]_vars

\* The records written whose year and runtime fields are decimal integers.
DecimalIdx ==
    {k \in 1..Len(output) : IsInt(output[k][4]) /\ IsDigit(<<output[k][7][1]>>)}

\* The row the claim expects for a line.
AgreesWith(row, line) ==
    /\ Len(SplitLine(line)) >= 13
    /\ row[1] = line[1]
    /\ row[2] = line[2]
    /\ row[3] = NoneIfEmpty(line[3])
    /\ row[4] = IntOf(line[4])
    /\ row[6] = IntOf(line[6])
    /\ row[7] = IntOf(<<line[7][1]>>)
    /\ row[8] = line[7]
    /\ row[9] = line[8]
    /\ \A c \in 10..14 : row[c] = NoneIfEmpty(line[c - 1])
    /\ (IF row[15] = 1 THEN W("1") ELSE W("0")) = line[14]

\* C23: when create_database has ended on the file process_basics wrote, it
\* has ended normally and table movies holds, for the lines with a decimal
\* year and runtime and in their order, one row each, made by the branch for
\* 13 fields or more: the columns equal the fields of the line, an empty
\* field being None, and isAdult equals field 14.
C23_ProducerLoaderAgreement ==
    pc \in {"loader:done", "loader:except"} =>
        /\ pc = "loader:done"
        /\ Len(table) = Cardinality(DecimalIdx)
        /\ \A n \in 1..Len(table) : AgreesWith(table[n], output[NthOf(DecimalIdx, n)])
====
